---- MODULE Spec2Model ----
(***************************************************************************)
(* Bookeo MCP server: the four tool operations of server.py driving the    *)
(* paginated fetch core of bookeo_client.py (BookeoClient), against an     *)
(* upstream that answers every HTTP request with 200, 429, an error status *)
(* or a transport timeout.                                                 *)
(*                                                                         *)
(* A naive datetime is an integer: seconds since 2023-01-01T00:00:00.      *)
(* A formatted instant ("%Y-%m-%dT%H:%M:%SZ") is <<y, mo, d, h, mi, s>>.   *)
(* A date string is <<y, mo, d>> (the three digit fields of "Y-M-D") or    *)
(* Malformed (text that does not match the pattern at all).                *)
(* An optional value (a dict key that may be missing, a variable that may  *)
(* be None) is <<>> when absent and <<v>> when present; text is a tuple of *)
(* characters, so that the empty text is <<>> as well and both are falsy.  *)
(***************************************************************************)
EXTENDS Integers, Sequences, FiniteSets, TLC

\* ------------------------------------------------------------- bounds
\* 429 answers the upstream gives during one call.
Max429 == 1
\* Responses with inconsistent paging metadata during one call.
MaxAnomalies == 1
\* Records the upstream puts on one page (it may serve fewer than itemsPerPage).
UpstreamPageCap == 2

\* ------------------------------------------------- program constants
CHUNK_DAYS == 30
RANGE_LIMIT_DAYS == 366
MAX_DAYS_BACK == 365
DEFAULT_RETRY_AFTER == 60
ITEMS_PER_PAGE == 100

None == <<>>
Malformed == <<>>
Some(v) == <<v>>
Truthy(o) == o # <<>>
\* dict.get(key, default) on an optional entry
Get(o, default) == IF o = <<>> THEN default ELSE o[1]

\* --------------------------------------------------------- calendar
SecPerDay == 24 * 60 * 60

Min(a, b) == IF a < b THEN a ELSE b

IsLeap(y) == (y % 4 = 0 /\ y % 100 # 0) \/ y % 400 = 0

DaysInYear(y) == IF IsLeap(y) THEN 366 ELSE 365

DaysInMonth(y, m) ==
    IF m = 2 THEN (IF IsLeap(y) THEN 29 ELSE 28)
    ELSE IF m \in {4, 6, 9, 11} THEN 30 ELSE 31

RECURSIVE DaysBeforeYear(_)
DaysBeforeYear(y) == IF y <= 2023 THEN 0 ELSE DaysBeforeYear(y - 1) + DaysInYear(y - 1)

\* Days of a common year before each month.
CumulativeDays == <<0, 31, 59, 90, 120, 151, 181, 212, 243, 273, 304, 334>>

DaysBeforeMonth(y, m) == CumulativeDays[m] + (IF m > 2 /\ IsLeap(y) THEN 1 ELSE 0)

\* Ordinal of a calendar day (0 = 2023-01-01).
DayOrdinal(y, m, d) == DaysBeforeYear(y) + DaysBeforeMonth(y, m) + (d - 1)

RECURSIVE YearOfDay(_, _)
YearOfDay(n, y) == IF n < DaysBeforeYear(y + 1) THEN y ELSE YearOfDay(n, y + 1)

RECURSIVE MonthOfDay(_, _, _)
MonthOfDay(n, y, m) ==
    IF n < DaysBeforeMonth(y, m) + DaysInMonth(y, m) THEN m ELSE MonthOfDay(n, y, m + 1)

\* The calendar day of an ordinal, <<y, m, d>>.
CivilOfDay(n) ==
    LET y == YearOfDay(n, 2023)
        r == n - DaysBeforeYear(y)
        m == MonthOfDay(r, y, 1)
    IN  <<y, m, r - DaysBeforeMonth(y, m) + 1>>

\* datetime.strptime(s, "%Y-%m-%d"): the text must match the pattern and name a
\* real calendar day, else ValueError.
StrptimeOk(s) ==
    /\ Len(s) = 3
    /\ s[2] \in 1..12
    /\ s[3] \in 1..DaysInMonth(s[1], s[2])

strptime(s) == DayOrdinal(s[1], s[2], s[3]) * SecPerDay

\* timedelta(days=n)
timedelta(n) == n * SecPerDay

\* (a - b).days
DeltaDays(a, b) == (a - b) \div SecPerDay

\* dt.replace(hour=h, minute=mi, second=s): the date is kept.
ReplaceTime(dt, h, mi, s) == (dt \div SecPerDay) * SecPerDay + h * 3600 + mi * 60 + s

\* ZoneInfo("America/Los_Angeles"): daylight time runs from the second Sunday of
\* March 02:00 to the first Sunday of November 02:00 (2023-01-01 is a Sunday).
FirstSundayFrom(day) == day + ((7 - (day % 7)) % 7)

DstStart(y) == (FirstSundayFrom(DayOrdinal(y, 3, 1)) + 7) * SecPerDay + 2 * 3600

DstEnd(y) == FirstSundayFrom(DayOrdinal(y, 11, 1)) * SecPerDay + 2 * 3600

UtcOffset(local) ==
    LET y == YearOfDay(local \div SecPerDay, 2023)
    IN  IF local >= DstStart(y) /\ local < DstEnd(y) THEN 7 * 3600 ELSE 8 * 3600

\* dt.replace(tzinfo=local_tz).astimezone(utc_tz), as a naive UTC instant.
astimezone_utc(local) == local + UtcOffset(local)

\* dt.strftime("%Y-%m-%dT%H:%M:%SZ")
strftime(t) ==
    LET c == CivilOfDay(t \div SecPerDay)
        r == t % SecPerDay
    IN  <<c[1], c[2], c[3], r \div 3600, (r % 3600) \div 60, r % 60>>

\* The upstream's reading of a formatted instant.
ParseInstant(f) == DayOrdinal(f[1], f[2], f[3]) * SecPerDay + f[4] * 3600 + f[5] * 60 + f[6]

\* ------------------------------------------------------------- text
SPACE == " "

Lower(c) ==
    CASE c = "A" -> "a" [] c = "B" -> "b" [] c = "L" -> "l" [] c = "I" -> "i"
      [] c = "X" -> "x" [] OTHER -> c

\* str.lower()
lower(s) == [i \in 1..Len(s) |-> Lower(s[i])]

RECURSIVE lstrip(_)
lstrip(s) == IF s # <<>> /\ Head(s) = SPACE THEN lstrip(Tail(s)) ELSE s

RECURSIVE rstrip(_)
rstrip(s) ==
    IF s # <<>> /\ s[Len(s)] = SPACE THEN rstrip(SubSeq(s, 1, Len(s) - 1)) ELSE s

\* str.strip()
strip(s) == rstrip(lstrip(s))

\* needle in hay
Contains(hay, needle) ==
    \E i \in 1..(Len(hay) - Len(needle) + 1) : SubSeq(hay, i, i + Len(needle) - 1) = needle

\* ---------------------------------------------------- upstream data
\* A local wall-clock time as the UTC instant the upstream stores.
LocalInstant(y, m, d, h) == astimezone_utc(DayOrdinal(y, m, d) * SecPerDay + h * 3600)

Ann == [firstName |-> Some(<<"A", "n">>), lastName |-> Some(<<"L", "i">>),
        emailAddress |-> Some(<<"a", "@", "X">>),
        phoneNumbers |-> <<[number |-> Some(<<"5", "5">>)]>>]

Bo == [firstName |-> None, lastName |-> Some(<<"B", "o">>),
       emailAddress |-> Some(<<"b", "@", "x">>), phoneNumbers |-> <<>>]

Booking(n, t, c, cancelled, nums) ==
    [bookingNumber |-> n, startTime |-> t, productName |-> Some("Tour"), customer |-> c,
     canceled |-> cancelled, participants |-> nums,
     price |-> IF cancelled THEN None
               ELSE Some([totalGross |-> Some(50), totalPaid |-> None, balanceDue |-> Some(50)])]

B1 == Booking("B1", LocalInstant(2024, 12, 27, 10), Ann, FALSE, <<2, 1>>)
B2 == Booking("B2", LocalInstant(2024, 12, 27, 12), Bo, FALSE, <<1>>)
B3 == Booking("B3", LocalInstant(2024, 12, 27, 14), Ann, TRUE, <<4>>)
B4 == Booking("B4", LocalInstant(2024, 12, 27, 18), Bo, FALSE, <<>>)
B5 == Booking("B5", LocalInstant(2024, 12, 28, 9), Ann, FALSE, <<2>>)
B6 == Booking("B6", LocalInstant(2024, 12, 1, 12), Ann, FALSE, <<3>>)

AllBookings == {B1, B2, B3, B4, B5, B6}

Datasets == {{B1, B6}, AllBookings}

Payment(amount, method, gateway) ==
    [amount |-> [amount |-> amount, currency |-> Some("USD")],
     paymentMethod |-> Some(method), gatewayName |-> gateway]

\* The payments the upstream holds for a booking number.
PaymentsOf(n) ==
    IF n = "B1" THEN <<Payment(Some(20), "cash", None), Payment(Some(30), "card", Some("Stripe"))>>
    ELSE IF n = "B2" THEN <<Payment(None, "card", Some("Square"))>>
    ELSE <<>>

BookingNumbers == {"B1", "B2", "B6", "nope"}

\* ------------------------------------------------- field projection
format_customer(booking) ==
    LET customer == booking.customer
        phone_numbers == customer.phoneNumbers
    IN  [name |-> strip(Get(customer.firstName, <<>>) \o <<SPACE>> \o Get(customer.lastName, <<>>)),
         email |-> Get(customer.emailAddress, <<>>),
         phone |-> IF phone_numbers # <<>> THEN Get(phone_numbers[1].number, <<>>) ELSE <<>>]

format_price(booking) ==
    LET price == Get(booking.price, [totalGross |-> None, totalPaid |-> None,
                                     balanceDue |-> None])
    IN  [total_gross |-> price.totalGross, total_paid |-> price.totalPaid,
         balance_due |-> price.balanceDue]

RECURSIVE SumSeq(_)
SumSeq(s) == IF s = <<>> THEN 0 ELSE Head(s) + SumSeq(Tail(s))

format_participants(booking) == SumSeq(booking.participants)

analyze_payment(payment) ==
    LET gateway == payment.gatewayName
    IN  [amount |-> payment.amount,
         method |-> Get(payment.paymentMethod, "unknown"),
         gateway |-> IF Truthy(gateway) THEN gateway[1] ELSE "manual",
         is_manual |-> ~Truthy(gateway)]

\* "stripe" in gateway.lower()
IsStripe(gateway) == gateway \in {"Stripe", "stripe", "Stripe Connect"}

\* The summary both search tools append for a booking.
Summary(booking) ==
    [booking_number |-> booking.bookingNumber,
     start_time |-> booking.startTime,
     product_name |-> booking.productName,
     customer |-> format_customer(booking),
     participants |-> format_participants(booking),
     price |-> format_price(booking)]

ErrorPayload(message) == [error |-> message]

\* ------------------------------------------------------ the upstream
\* The bookings of a dataset matching a search request, in start-time order.
Matching(data, params) ==
    {b \in data :
        /\ ParseInstant(params.startTime[1]) <= b.startTime
        /\ b.startTime <= ParseInstant(params.endTime[1])
        /\ (params.includeCanceled = Some("true") \/ ~b.canceled)}

RECURSIVE SortByTime(_)
SortByTime(S) ==
    IF S = {} THEN <<>>
    ELSE LET first == CHOOSE b \in S : \A c \in S : b.startTime <= c.startTime
         IN  <<first>> \o SortByTime(S \ {first})

PageSize(params) == Min(params.itemsPerPage[1], UpstreamPageCap)

\* The page a request asks for: the first one unless it carries a cursor.
RequestedPage(params) ==
    IF Truthy(params.pageNavigationToken) THEN params.pageNumber[1] ELSE 1

PageCount(data, params) ==
    LET n == Cardinality(Matching(data, params))
    IN  IF n = 0 THEN 1 ELSE (n + PageSize(params) - 1) \div PageSize(params)

PageData(data, params) ==
    LET all == SortByTime(Matching(data, params))
        p == RequestedPage(params)
        lo == (p - 1) * PageSize(params) + 1
        hi == Min(p * PageSize(params), Len(all))
    IN  SubSeq(all, lo, hi)

\* Paging metadata as the upstream reports it; `anomaly` names what a response
\* leaves out although it declares a further page.
Paging(data, params, nonce, anomaly) ==
    LET more == RequestedPage(params) < PageCount(data, params)
    IN  [nextPageURL |-> IF more THEN Some("next") ELSE None,
         pageNavigationToken |-> IF anomaly = "no_token" THEN None ELSE Some(nonce),
         currentPage |-> IF anomaly = "no_current_page" THEN None
                         ELSE Some(RequestedPage(params))]

Anomalies == {"none", "no_token", "no_current_page"}

\* What the upstream can leave out of this response: nothing is left out of a
\* response that declares no further page.
AnomalyApplies(data, params, anomaly) ==
    \/ anomaly = "none"
    \/ /\ RequestedPage(params) < PageCount(data, params)
       /\ anomaly = "no_current_page" => RequestedPage(params) > 1

\* ------------------------------------------------------------ state
VARIABLES
    credentials,    \* API_KEY and API_SECRET are set in the environment
    dataset,        \* the bookings the upstream holds
    server_client,  \* server.py's global _client holds a BookeoClient
    transport,      \* BookeoClient._client: None or Some(id of the httpx client)
    created,        \* httpx clients created so far (the last one's id)
    released,       \* ids of the httpx clients aclose() has been called on
    closer,         \* position of a close() call: "idle" or "aclose"
    pc,             \* per task: "idle", "await_get", "sleep_429", "sleep_chunk", "done"
    tool,           \* per task: the tool invocation's frame and its outcome
    gen,            \* per task: search_bookings' frame
    req,            \* per task: _request's frame
    log             \* per task: the client.get calls made, each with its answer

vars == <<credentials, dataset, server_client, transport, created, released, closer,
          pc, tool, gen, req, log>>

Tasks == 1..2

BASE_URL == <<"https://api.bookeo.com/v2">>

NoParams ==
    [startTime |-> None, endTime |-> None, itemsPerPage |-> None, expandCustomer |-> None,
     includeCanceled |-> None, pageNavigationToken |-> None, pageNumber |-> None,
     apiKey |-> None, secretKey |-> None]

IdleTool == [name |-> "none", args |-> <<>>, results |-> <<>>, outcome |-> "none",
             payload |-> <<>>]

IdleGen == [start_time |-> 0, current_start |-> 0, end_time |-> 0, chunk_end |-> 0,
            page_token |-> None, page_number |-> None,
            expand_customer |-> TRUE, include_canceled |-> FALSE,
            yielded |-> <<>>, chunks |-> <<>>, state |-> "none"]

IdleReq == [client |-> None, url |-> <<>>, params |-> NoParams]

\* The tool returns `value` to its caller.
Return(tl, value) == [tl EXCEPT !.outcome = "returned", !.payload = value]

\* The tool lets the exception `exc` out to its caller.
Propagate(tl, exc) == [tl EXCEPT !.outcome = "raised", !.payload = exc]

\* str(flag).lower()
BoolText(flag) == IF flag THEN "true" ELSE "false"

Count429(t) == Cardinality({i \in 1..Len(log[t]) : log[t][i].status = "429"})

CountAnomalies(t) == Cardinality({i \in 1..Len(log[t]) : log[t][i].anomaly # "none"})

Pending(t) == pc[t] = "await_get" /\ log[t][Len(log[t])].status = "pending"

\* The answer to the task's pending client.get is recorded.
Answered(t, status, header, data, paging, anomaly) ==
    [log[t] EXCEPT ![Len(log[t])] =
        [@ EXCEPT !.status = status, !.retry_after = header, !.data = data,
                  !.paging = paging, !.anomaly = anomaly]]

\* --------------------------------------------------- BookeoClient
\* client.get(url, params=params) on httpx client `c`, recorded after the calls
\* in `sofar` with the chunk of the search it is made for (0: not a search).
client_get(c, url, params, chunk, sofar) ==
    Append(sofar, [url |-> url, params |-> params, transport |-> c[1],
                   released |-> c[1] \in released, chunk |-> chunk, status |-> "pending",
                   retry_after |-> None, slept |-> None, data |-> <<>>, paging |-> None,
                   anomaly |-> "none"])

\* _get_client(): the httpx client is created on first use.
_get_client == IF transport = None THEN Some(created + 1) ELSE transport

\* _request(endpoint, params) up to its first await: the client is fetched, the
\* credentials are added, the request is sent. `sofar` is the task's log.
_request(t, endpoint, params, chunk, sofar) ==
    LET client == _get_client
        p == [params EXCEPT !.apiKey = Some("API_KEY"), !.secretKey = Some("API_SECRET")]
        url == BASE_URL \o endpoint
    IN  /\ transport' = client
        /\ created' = IF transport = None THEN created + 1 ELSE created
        /\ req' = [req EXCEPT ![t] = [client |-> client, url |-> url, params |-> p]]
        /\ log' = [log EXCEPT ![t] = client_get(client, url, p, chunk, sofar)]

NoRequest == UNCHANGED <<transport, created, req, log>>

\* The params search_bookings builds for one page request of the current chunk.
SearchParams(g) ==
    LET start_local == ReplaceTime(g.current_start, 0, 0, 0)
        end_local == ReplaceTime(g.chunk_end, 23, 59, 59)
        start_utc == astimezone_utc(start_local)
        end_utc == astimezone_utc(end_local)
        base == [NoParams EXCEPT
                    !.startTime = Some(strftime(start_utc)),
                    !.endTime = Some(strftime(end_utc)),
                    !.itemsPerPage = Some(ITEMS_PER_PAGE),
                    !.expandCustomer = Some(BoolText(g.expand_customer)),
                    !.includeCanceled = Some(BoolText(g.include_canceled))]
    IN  IF Truthy(g.page_token)
        THEN [base EXCEPT !.pageNavigationToken = g.page_token,
                          !.pageNumber = g.page_number]
        ELSE base

\* Mutant of ChunkEnd: the last chunk is not cut at the end of the window.
ChunkEnd_NoMin(current_start, end_time) == current_start + timedelta(CHUNK_DAYS)

\* chunk_end = min(current_start + timedelta(days=30), end_time)
ChunkEnd(current_start, end_time) == Min(current_start + timedelta(CHUNK_DAYS), end_time)

\* The head of search_bookings' outer loop, run with frame g by the tool whose
\* frame is tl: a further chunk is started and its first page requested, or the
\* generator is exhausted and the tool returns what it has accumulated.
enter_loop(t, g, tl) ==
    IF g.current_start < g.end_time
    THEN LET g2 == [g EXCEPT !.chunk_end = ChunkEnd(g.current_start, g.end_time),
                             !.page_token = None, !.page_number = None,
                             !.chunks = Append(@, <<g.current_start,
                                                    ChunkEnd(g.current_start, g.end_time)>>),
                             !.state = "running"]
         IN  /\ gen' = [gen EXCEPT ![t] = g2]
             /\ tool' = [tool EXCEPT ![t] = tl]
             /\ pc' = [pc EXCEPT ![t] = "await_get"]
             /\ _request(t, <<"/bookings">>, SearchParams(g2), Len(g2.chunks), log[t])
    ELSE /\ gen' = [gen EXCEPT ![t] = [g EXCEPT !.state = "exhausted"]]
         /\ tool' = [tool EXCEPT ![t] = Return(tl, tl.results)]
         /\ pc' = [pc EXCEPT ![t] = "done"]
         /\ NoRequest

\* search_bookings(start_time, end_time, expand_customer, include_canceled) is
\* iterated for the first time.
search_bookings(t, start_time, end_time, expand_customer, include_canceled, tl) ==
    enter_loop(t, [IdleGen EXCEPT !.start_time = start_time, !.current_start = start_time,
                                  !.end_time = end_time,
                                  !.expand_customer = expand_customer,
                                  !.include_canceled = include_canceled], tl)

\* An exception leaves the client while tool frame tl awaits it: get_booking and
\* get_booking_payments catch it, the two search tools have no handler.
OnException(tl, exc) ==
    IF tl.name = "get_booking"
    THEN Return(tl, ErrorPayload(<<"Booking not found or API error", exc>>))
    ELSE IF tl.name = "get_booking_payments"
    THEN Return(tl, ErrorPayload(<<"Could not fetch payments", exc>>))
    ELSE Propagate(tl, exc)

\* server.py get_client(): the BookeoClient is built on first use, which needs
\* the credentials.
GetClientOk == server_client \/ credentials

Env == <<credentials, dataset>>

\* ------------------------------------------------------- tool layer
\* search_bookings_by_customer(customer_name, customer_email, days_back), with
\* datetime.now() = now, up to its first await.
search_bookings_by_customer(t, customer_name, customer_email, days_back, now) ==
    LET tl == [IdleTool EXCEPT !.name = "search_bookings_by_customer",
                               !.args = [customer_name |-> customer_name,
                                         customer_email |-> customer_email,
                                         days_back |-> days_back, now |-> now]]
        end_time == now
        start_time == end_time - timedelta(Min(days_back, MAX_DAYS_BACK))
    IN  /\ pc[t] = "idle"
        /\ UNCHANGED <<Env, released, closer>>
        /\ IF ~Truthy(customer_name) /\ ~Truthy(customer_email)
           THEN /\ tool' = [tool EXCEPT ![t] = Return(tl,
                       <<ErrorPayload("Must provide either customer_name or customer_email")>>)]
                /\ pc' = [pc EXCEPT ![t] = "done"]
                /\ UNCHANGED <<server_client, gen>>
                /\ NoRequest
           ELSE IF ~GetClientOk
           THEN /\ tool' = [tool EXCEPT ![t] = Propagate(tl, "ValueError")]
                /\ pc' = [pc EXCEPT ![t] = "done"]
                /\ UNCHANGED <<server_client, gen>>
                /\ NoRequest
           ELSE /\ server_client' = TRUE
                /\ search_bookings(t, start_time, end_time, TRUE, FALSE, tl)

\* Mutant of RangeTooLong: the limit is one day too high.
RangeTooLong_OffByOne(start_time, end_time) ==
    DeltaDays(end_time, start_time) > RANGE_LIMIT_DAYS + 1

\* if (end_time - start_time).days > 366
RangeTooLong(start_time, end_time) == DeltaDays(end_time, start_time) > RANGE_LIMIT_DAYS

\* search_bookings_by_date(start_date, end_date, include_canceled) up to its
\* first await.
search_bookings_by_date(t, start_date, end_date, include_canceled) ==
    LET tl == [IdleTool EXCEPT !.name = "search_bookings_by_date",
                               !.args = [start_date |-> start_date, end_date |-> end_date,
                                         include_canceled |-> include_canceled]]
        start_time == strptime(start_date)
        end_time == strptime(end_date) + timedelta(1)
    IN  /\ pc[t] = "idle"
        /\ UNCHANGED <<Env, released, closer>>
        /\ IF ~StrptimeOk(start_date) \/ ~StrptimeOk(end_date)
           THEN /\ tool' = [tool EXCEPT ![t] = Return(tl,
                       <<ErrorPayload("Invalid date format. Use YYYY-MM-DD")>>)]
                /\ pc' = [pc EXCEPT ![t] = "done"]
                /\ UNCHANGED <<server_client, gen>>
                /\ NoRequest
           ELSE IF RangeTooLong(start_time, end_time)
           THEN /\ tool' = [tool EXCEPT ![t] = Return(tl,
                       <<ErrorPayload("Date range cannot exceed 365 days")>>)]
                /\ pc' = [pc EXCEPT ![t] = "done"]
                /\ UNCHANGED <<server_client, gen>>
                /\ NoRequest
           ELSE IF ~GetClientOk
           THEN /\ tool' = [tool EXCEPT ![t] = Propagate(tl, "ValueError")]
                /\ pc' = [pc EXCEPT ![t] = "done"]
                /\ UNCHANGED <<server_client, gen>>
                /\ NoRequest
           ELSE /\ server_client' = TRUE
                /\ search_bookings(t, start_time, end_time, TRUE, include_canceled, tl)

\* get_booking(booking_number) up to its first await: get_client() is called
\* before the try block is entered.
get_booking(t, booking_number) ==
    LET tl == [IdleTool EXCEPT !.name = "get_booking",
                               !.args = [booking_number |-> booking_number]]
    IN  /\ pc[t] = "idle"
        /\ UNCHANGED <<Env, released, closer, gen>>
        /\ IF ~GetClientOk
           THEN /\ tool' = [tool EXCEPT ![t] = Propagate(tl, "ValueError")]
                /\ pc' = [pc EXCEPT ![t] = "done"]
                /\ UNCHANGED server_client
                /\ NoRequest
           ELSE /\ server_client' = TRUE
                /\ tool' = [tool EXCEPT ![t] = tl]
                /\ pc' = [pc EXCEPT ![t] = "await_get"]
                /\ _request(t, <<"/bookings", booking_number>>,
                            [NoParams EXCEPT !.expandCustomer = Some("true")], 0, log[t])

\* get_booking_payments(booking_number) up to its first await.
get_booking_payments(t, booking_number) ==
    LET tl == [IdleTool EXCEPT !.name = "get_booking_payments",
                               !.args = [booking_number |-> booking_number]]
    IN  /\ pc[t] = "idle"
        /\ UNCHANGED <<Env, released, closer, gen>>
        /\ IF ~GetClientOk
           THEN /\ tool' = [tool EXCEPT ![t] = Propagate(tl, "ValueError")]
                /\ pc' = [pc EXCEPT ![t] = "done"]
                /\ UNCHANGED server_client
                /\ NoRequest
           ELSE /\ server_client' = TRUE
                /\ tool' = [tool EXCEPT ![t] = tl]
                /\ pc' = [pc EXCEPT ![t] = "await_get"]
                /\ _request(t, <<"/bookings", booking_number, "payments">>, NoParams, 0,
                            log[t])

\* The body of the consumer's "async for" over one page of yielded bookings.
Consume(tl, data) ==
    IF tl.name = "search_bookings_by_customer"
    THEN LET name_lower == lower(tl.args.customer_name)
             email_lower == lower(tl.args.customer_email)
             Match(b) ==
                 \/ Truthy(name_lower) /\ Contains(lower(format_customer(b).name), name_lower)
                 \/ Truthy(email_lower) /\ Contains(lower(format_customer(b).email), email_lower)
             hits == SelectSeq(data, Match)
         IN  [tl EXCEPT !.results = @ \o [i \in 1..Len(hits) |-> Summary(hits[i])]]
    ELSE [tl EXCEPT !.results = @ \o [i \in 1..Len(data) |-> Summary(data[i])]]

\* ------------------------------------------------ upstream answers
\* int(text) of a decimal header value
Digit(c) ==
    CASE c = "0" -> 0 [] c = "1" -> 1 [] c = "2" -> 2 [] c = "3" -> 3 [] c = "4" -> 4
      [] c = "5" -> 5 [] c = "6" -> 6 [] c = "7" -> 7 [] c = "8" -> 8 [] c = "9" -> 9

RECURSIVE ParseInt(_)
ParseInt(text) ==
    IF text = <<>> THEN 0
    ELSE ParseInt(SubSeq(text, 1, Len(text) - 1)) * 10 + Digit(text[Len(text)])

\* Mutant of RetryAfter: the header is not read.
RetryAfter_IgnoresHeader(header) == DEFAULT_RETRY_AFTER

\* int(response.headers.get("Retry-After", 60))
RetryAfter(header) == IF header = None THEN DEFAULT_RETRY_AFTER ELSE ParseInt(header[1])

RetryAfterHeaders == {None, Some(<<"1", "2">>)}

ErrorStatuses == {"404", "500"}

\* for booking in data.get("data", []): yield booking -- with the chunk (its
\* place in the chunk sequence) the page belongs to.
Yield(chunk, data) == [i \in 1..Len(data) |-> [chunk |-> chunk, booking |-> data[i]]]

\* Mutant of HasNextPage: the next-page indicator is never followed.
HasNextPage_Never(paging) == FALSE

\* if paging.get("nextPageURL")
HasNextPage(paging) == Truthy(paging.nextPageURL)

\* Mutant of NextPageNumber: a page is skipped.
NextPageNumber_Skip(paging) == Get(paging.currentPage, 1) + 2

\* paging.get("currentPage", 1) + 1
NextPageNumber(paging) == Get(paging.currentPage, 1) + 1

\* The upstream answers a /bookings page request with 200. search_bookings yields
\* the page's records to the consumer, then follows the paging metadata: a
\* further page is requested, or the chunk ends and the courtesy sleep begins.
search_page_response(t, anomaly) ==
    LET params == req[t].params
        data == PageData(dataset, params)
        paging == Paging(dataset, params, Len(log[t]), anomaly)
        g == [gen[t] EXCEPT !.yielded = @ \o Yield(Len(gen[t].chunks), data)]
        answered == Answered(t, "200", None, data, Some(paging), anomaly)
    IN  /\ Pending(t)
        /\ ~log[t][Len(log[t])].released
        /\ tool[t].name \in {"search_bookings_by_customer", "search_bookings_by_date"}
        /\ AnomalyApplies(dataset, params, anomaly)
        /\ anomaly # "none" => CountAnomalies(t) < MaxAnomalies
        /\ UNCHANGED <<Env, server_client, released, closer>>
        /\ tool' = [tool EXCEPT ![t] = Consume(tool[t], data)]
        /\ IF HasNextPage(paging)
           THEN LET g2 == [g EXCEPT !.page_token = paging.pageNavigationToken,
                                    !.page_number = Some(NextPageNumber(paging))]
                IN  /\ gen' = [gen EXCEPT ![t] = g2]
                    /\ pc' = pc
                    /\ _request(t, <<"/bookings">>, SearchParams(g2), Len(g2.chunks), answered)
           ELSE /\ gen' = [gen EXCEPT ![t] = [g EXCEPT !.current_start = g.chunk_end]]
                /\ pc' = [pc EXCEPT ![t] = "sleep_chunk"]
                /\ log' = [log EXCEPT ![t] = answered]
                /\ UNCHANGED <<transport, created, req>>

\* The courtesy sleep after a chunk is over: the outer loop is re-entered.
next_chunk(t) ==
    /\ pc[t] = "sleep_chunk"
    /\ UNCHANGED <<Env, server_client, released, closer>>
    /\ enter_loop(t, gen[t], tool[t])

\* The upstream answers a /bookings/{n} request with 200: get_booking projects
\* the booking and returns it (of the fields it passes through unchanged, the
\* booking number, the start time and the product name are kept here).
get_booking_response(t) ==
    /\ Pending(t)
    /\ ~log[t][Len(log[t])].released
    /\ tool[t].name = "get_booking"
    /\ \E booking \in dataset :
          /\ booking.bookingNumber = tool[t].args.booking_number
          /\ tool' = [tool EXCEPT ![t] =
                Return(@, [booking_number |-> booking.bookingNumber,
                           start_time |-> booking.startTime,
                           product_name |-> booking.productName,
                           customer |-> format_customer(booking),
                           participants |-> format_participants(booking),
                           price |-> format_price(booking)])]
    /\ log' = [log EXCEPT ![t] = Answered(t, "200", None, <<>>, None, "none")]
    /\ pc' = [pc EXCEPT ![t] = "done"]
    /\ UNCHANGED <<Env, server_client, released, closer, gen, transport, created, req>>

\* The upstream answers a /bookings/{n}/payments request with 200:
\* get_booking_payments analyses the payments and returns the breakdown.
get_booking_payments_response(t) ==
    LET booking_number == tool[t].args.booking_number
        payments == PaymentsOf(booking_number)
        analyzed_payments == [i \in 1..Len(payments) |-> analyze_payment(payments[i])]
        amounts == [i \in 1..Len(payments) |-> Get(analyzed_payments[i].amount.amount, 0)]
    IN  /\ Pending(t)
        /\ ~log[t][Len(log[t])].released
        /\ tool[t].name = "get_booking_payments"
        /\ \E booking \in dataset : booking.bookingNumber = booking_number
        /\ tool' = [tool EXCEPT ![t] =
              Return(@, [booking_number |-> booking_number,
                         payment_count |-> Len(payments),
                         total_paid |-> SumSeq(amounts),
                         currency |-> IF analyzed_payments # <<>>
                                      THEN Get(analyzed_payments[1].amount.currency, "CAD")
                                      ELSE "CAD",
                         has_manual_payment |->
                             \E i \in 1..Len(payments) : analyzed_payments[i].is_manual,
                         has_stripe_payment |->
                             \E i \in 1..Len(payments) : IsStripe(analyzed_payments[i].gateway),
                         payment_methods |->
                             {analyzed_payments[i].method : i \in 1..Len(payments)},
                         payments |-> analyzed_payments])]
        /\ log' = [log EXCEPT ![t] = Answered(t, "200", None, <<>>, None, "none")]
        /\ pc' = [pc EXCEPT ![t] = "done"]
        /\ UNCHANGED <<Env, server_client, released, closer, gen, transport, created, req>>

\* The upstream answers 429: _request reads Retry-After and goes to sleep.
too_many_requests(t, header) ==
    /\ Pending(t)
    /\ ~log[t][Len(log[t])].released
    /\ Count429(t) < Max429
    /\ log' = [log EXCEPT ![t] =
          [Answered(t, "429", header, <<>>, None, "none") EXCEPT
              ![Len(log[t])].slept = Some(RetryAfter(header))]]
    /\ pc' = [pc EXCEPT ![t] = "sleep_429"]
    /\ UNCHANGED <<Env, server_client, released, closer, gen, tool, transport, created, req>>

\* The sleep after a 429 is over: the loop of _request sends the request again,
\* on the client and with the url and params its frame holds.
retry_request(t) ==
    /\ pc[t] = "sleep_429"
    /\ log' = [log EXCEPT ![t] = client_get(req[t].client, req[t].url, req[t].params,
                                            log[t][Len(log[t])].chunk, log[t])]
    /\ pc' = [pc EXCEPT ![t] = "await_get"]
    /\ UNCHANGED <<Env, server_client, released, closer, gen, tool, transport, created, req>>

\* Mutant of Raise: an error status is handled like a 429, by sleeping and
\* sending the request again.
Raise_AsRateLimit(t, status, exc) ==
    /\ log' = [log EXCEPT ![t] =
          [Answered(t, status, None, <<>>, None, "none") EXCEPT
              ![Len(log[t])].slept = Some(DEFAULT_RETRY_AFTER)]]
    /\ pc' = [pc EXCEPT ![t] = "sleep_429"]
    /\ UNCHANGED <<Env, server_client, released, closer, gen, tool, transport, created, req>>

\* The exception exc leaves _request: it ends search_bookings, if that is the
\* caller, and reaches the tool.
Raise(t, status, exc) ==
    /\ log' = [log EXCEPT ![t] = Answered(t, status, None, <<>>, None, "none")]
    /\ gen' = [gen EXCEPT ![t] = IF @.state = "running" THEN [@ EXCEPT !.state = "failed"] ELSE @]
    /\ tool' = [tool EXCEPT ![t] = OnException(@, exc)]
    /\ pc' = [pc EXCEPT ![t] = "done"]
    /\ UNCHANGED <<Env, server_client, released, closer, transport, created, req>>

\* The upstream answers with an error status (404 for a single booking only):
\* response.raise_for_status() raises.
raise_for_status(t, status) ==
    /\ Pending(t)
    /\ ~log[t][Len(log[t])].released
    /\ status = "404" => req[t].url # BASE_URL \o <<"/bookings">>
    /\ Raise(t, status, "HTTPStatusError")

\* No answer within the client's 30 s timeout: client.get raises.
read_timeout(t) ==
    /\ Pending(t)
    /\ ~log[t][Len(log[t])].released
    /\ Raise(t, "timeout", "TimeoutException")

\* client.get was called on an httpx client that had been closed: it raises.
closed_client_error(t) ==
    /\ Pending(t)
    /\ log[t][Len(log[t])].released
    /\ Raise(t, "closed", "RuntimeError")

\* close() up to its await: aclose() is called on the httpx client.
close_begin ==
    /\ closer = "idle"
    /\ Truthy(transport)
    /\ released' = released \cup {transport[1]}
    /\ closer' = "aclose"
    /\ UNCHANGED <<Env, server_client, transport, created, pc, tool, gen, req, log>>

\* close() after its await: the reference is dropped.
close_end ==
    /\ closer = "aclose"
    /\ transport' = None
    /\ closer' = "idle"
    /\ UNCHANGED <<Env, server_client, released, created, pc, tool, gen, req, log>>

\* -------------------------------------------------- specifications
\* <<start_date, end_date, include_canceled>>: one day, exactly 30 days, two
\* chunks, a daylight-time change inside, a first chunk of several pages, the
\* longest span accepted, two spans rejected, an empty window and strings
\* strptime refuses.
DateQueries ==
    {<<<<2024, 12, 27>>, <<2024, 12, 27>>, FALSE>>,
     <<<<2024, 12, 27>>, <<2024, 12, 27>>, TRUE>>,
     <<<<2024, 11, 28>>, <<2024, 12, 27>>, FALSE>>,
     <<<<2024, 11, 1>>, <<2024, 12, 27>>, TRUE>>,
     <<<<2024, 3, 1>>, <<2024, 3, 31>>, FALSE>>,
     <<<<2024, 12, 1>>, <<2025, 1, 15>>, FALSE>>,
     <<<<2023, 12, 28>>, <<2024, 12, 27>>, FALSE>>,
     <<<<2023, 12, 27>>, <<2024, 12, 27>>, FALSE>>,
     <<<<2023, 11, 24>>, <<2024, 12, 27>>, TRUE>>,
     <<<<2024, 12, 27>>, <<2024, 11, 28>>, FALSE>>,
     <<<<2024, 2, 30>>, <<2024, 12, 27>>, FALSE>>,
     <<<<2024, 12, 27>>, <<2024, 13, 1>>, TRUE>>,
     <<Malformed, <<2024, 12, 27>>, FALSE>>}

\* <<customer_name, customer_email, days_back>>
CustomerQueries ==
    {<<<<>>, <<>>, 56>>,
     <<<<"a", "N">>, <<>>, 56>>,
     <<<<>>, <<"@", "x">>, 56>>,
     <<<<"B", "o">>, <<"@", "x">>, -3>>,
     <<<<"l", "I">>, <<>>, 400>>}

\* Values of datetime.now(): 2024-12-27 15:30:00.
NowValues == {DayOrdinal(2024, 12, 27) * SecPerDay + 15 * 3600 + 30 * 60}

TypeInit ==
    /\ server_client = FALSE
    /\ transport = None
    /\ created = 0
    /\ released = {}
    /\ closer = "idle"
    /\ pc = [t \in Tasks |-> "idle"]
    /\ tool = [t \in Tasks |-> IdleTool]
    /\ gen = [t \in Tasks |-> IdleGen]
    /\ req = [t \in Tasks |-> IdleReq]
    /\ log = [t \in Tasks |-> <<>>]

Init ==
    /\ credentials \in BOOLEAN
    /\ dataset \in Datasets
    /\ TypeInit

Answer(t) ==
    \/ \E anomaly \in Anomalies : search_page_response(t, anomaly)
    \/ get_booking_response(t)
    \/ get_booking_payments_response(t)
    \/ \E header \in RetryAfterHeaders : too_many_requests(t, header)
    \/ retry_request(t)
    \/ \E status \in ErrorStatuses : raise_for_status(t, status)
    \/ read_timeout(t)
    \/ next_chunk(t)

\* One tool invocation, every input, every upstream answer.
Next ==
    \/ \E q \in CustomerQueries, now \in NowValues :
          search_bookings_by_customer(1, q[1], q[2], q[3], now)
    \/ \E q \in DateQueries : search_bookings_by_date(1, q[1], q[2], q[3])
    \/ \E n \in BookingNumbers : get_booking(1, n)
    \/ \E n \in BookingNumbers : get_booking_payments(1, n)
    \/ Answer(1)

Spec == Init /\ [][Next]_vars

\* Two tasks call the client while close() may run between any two of their steps.
InitConc ==
    /\ credentials = TRUE
    /\ dataset = AllBookings
    /\ TypeInit

NextConc ==
    \/ \E t \in Tasks : get_booking(t, "B1")
    \/ \E t \in Tasks : search_bookings_by_date(t, <<2024, 12, 27>>, <<2024, 12, 27>>, FALSE)
    \/ \E t \in Tasks : search_page_response(t, "none")
    \/ \E t \in Tasks : next_chunk(t)
    \/ \E t \in Tasks : get_booking_response(t)
    \/ \E t \in Tasks : too_many_requests(t, None)
    \/ \E t \in Tasks : retry_request(t)
    \/ \E t \in Tasks : raise_for_status(t, "500")
    \/ \E t \in Tasks : closed_client_error(t)
    \/ close_begin
    \/ close_end

SpecConc == InitConc /\ [][NextConc]_vars

\* ---------------------------------------------------------- claims
SearchTools == {"search_bookings_by_customer", "search_bookings_by_date"}

IsSearch(t) == tool[t].name \in SearchTools

\* The startTime search_bookings sends for a chunk that starts at current_start.
ChunkStartSent(current_start) == strftime(astimezone_utc(ReplaceTime(current_start, 0, 0, 0)))

\* The places in the task's log of the requests made for its k-th chunk.
ChunkRequests(t, k) == {i \in 1..Len(log[t]) : log[t][i].chunk = k}

\* The k-th chunk's pagination is over.
ChunkOver(t, k) ==
    \/ k < Len(gen[t].chunks)
    \/ gen[t].state = "exhausted"
    \/ pc[t] = "sleep_chunk"

\* The records of the pages received, in the order received.
RECURSIVE ConcatPages(_)
ConcatPages(entries) ==
    IF entries = <<>> THEN <<>> ELSE Head(entries).data \o ConcatPages(Tail(entries))

\* C1: no tool operation ever raises to its caller, whatever the upstream
\* answers and also when the client cannot be constructed.
C1_NeverRaises == \A t \in Tasks : tool[t].outcome # "raised"

\* A booking lies in the window [start_time, end_time) the search was called with.
InWindow(b, g) ==
    /\ astimezone_utc(g.start_time) <= b.startTime
    /\ b.startTime < astimezone_utc(g.end_time)
    /\ (g.include_canceled \/ ~b.canceled)

Occurrences(b, g) == Cardinality({i \in 1..Len(g.yielded) : g.yielded[i].booking = b})

\* C2: when a search is over, against an upstream that answers every request
\* with exactly the bookings of the interval asked for, every booking of the
\* requested window has been yielded exactly once.
C2_ExactlyOnce ==
    \A t \in Tasks :
        (gen[t].state = "exhausted" /\ CountAnomalies(t) = 0)
            => \A b \in dataset : InWindow(b, gen[t]) => Occurrences(b, gen[t]) = 1

\* C3: search_bookings_by_date(S, E) transmits an interval that starts at S
\* 00:00:00 local and ends at E 23:59:59 local, in UTC, and never reaches into the
\* day after E; for S = E = 2024-12-27 that is 2024-12-27T08:00:00Z to
\* 2024-12-28T07:59:59Z.
C3_DayWindow ==
    \A t \in Tasks :
        (tool[t].name = "search_bookings_by_date" /\ log[t] # <<>>) =>
            LET S == strptime(tool[t].args.start_date)
                E == strptime(tool[t].args.end_date)
                last == astimezone_utc(ReplaceTime(E, 23, 59, 59))
            IN  /\ log[t][1].params.startTime = Some(ChunkStartSent(S))
                /\ \A i \in 1..Len(log[t]) : ParseInstant(log[t][i].params.endTime[1]) <= last
                /\ (tool[t].args.start_date = <<2024, 12, 27>>
                        /\ tool[t].args.end_date = <<2024, 12, 27>>)
                    => /\ log[t][1].params.startTime = Some(<<2024, 12, 27, 8, 0, 0>>)
                       /\ log[t][1].params.endTime = Some(<<2024, 12, 28, 7, 59, 59>>)

\* ceil(a / b)
CeilDiv(a, b) == (a + b - 1) \div b

\* C4: the chunks (current_start, chunk_end) search_bookings iterates over are
\* in chronological order, contiguous, each non-empty and at most 30 days long,
\* inside the window; their number never exceeds ceil(window / 30 days), so the
\* loop terminates; once the loop is over their union is exactly [start, end),
\* and a window of exactly 30 days has produced exactly one chunk.
C4_Chunks ==
    \A t \in Tasks :
        LET g == gen[t]
            c == g.chunks
        IN  /\ \A i \in 1..Len(c) :
                  /\ c[i][1] < c[i][2]
                  /\ c[i][2] - c[i][1] <= 30 * SecPerDay
                  /\ c[i][2] <= g.end_time
                  /\ i = 1 => c[i][1] = g.start_time
                  /\ i > 1 => c[i][1] = c[i - 1][2]
            /\ g.start_time < g.end_time
                  => Len(c) <= CeilDiv(g.end_time - g.start_time, 30 * SecPerDay)
            /\ g.state = "exhausted" =>
                  /\ g.start_time < g.end_time => (c # <<>> /\ c[Len(c)][2] = g.end_time)
                  /\ g.start_time >= g.end_time => c = <<>>
                  /\ g.end_time - g.start_time = 30 * SecPerDay => Len(c) = 1

\* A search over a window of more than 30 days has run to its end.
C4_Witness ==
    \E t \in Tasks :
        /\ gen[t].state = "exhausted"
        /\ Len(gen[t].chunks) >= 3
        /\ gen[t].end_time - gen[t].start_time > 30 * SecPerDay

\* C5: records are yielded in chunk-then-page order and, inside a page, as
\* received: what has been yielded is the concatenation, in request order, of the
\* pages received; requests never go back to an earlier chunk; and a chunk whose
\* upstream result has n pages is over after exactly n successful requests, for
\* pages 1..n in this order, of which the last alone declares no next page.
C5_PageOrder ==
    \A t \in Tasks :
        (IsSearch(t) /\ CountAnomalies(t) = 0) =>
            /\ [i \in 1..Len(gen[t].yielded) |-> gen[t].yielded[i].booking] = ConcatPages(log[t])
            /\ \A i \in 1..Len(gen[t].yielded) :
                  i > 1 => gen[t].yielded[i - 1].chunk <= gen[t].yielded[i].chunk
            /\ \A i \in 1..Len(log[t]) :
                  /\ log[t][i].chunk \in 1..Len(gen[t].chunks)
                  /\ i > 1 => log[t][i - 1].chunk <= log[t][i].chunk
            /\ \A k \in 1..Len(gen[t].chunks) :
                  ChunkOver(t, k) =>
                      LET ok == {i \in ChunkRequests(t, k) : log[t][i].status = "200"}
                          n == PageCount(dataset, log[t][CHOOSE i \in ChunkRequests(t, k) : TRUE].params)
                      IN  /\ Cardinality(ok) = n
                          /\ \A i \in ok :
                                /\ RequestedPage(log[t][i].params)
                                      = Cardinality({j \in ok : j <= i})
                                /\ Truthy(log[t][i].paging[1].nextPageURL)
                                      <=> Cardinality({j \in ok : j <= i}) < n

\* A search is over in which a chunk of three pages was followed by another chunk.
C5_Witness ==
    \E t \in Tasks :
        /\ IsSearch(t) /\ CountAnomalies(t) = 0
        /\ gen[t].state = "exhausted"
        /\ \E k \in 1..Len(gen[t].chunks) :
              Cardinality({i \in ChunkRequests(t, k) : log[t][i].status = "200"}) >= 3
        /\ \E i \in 2..Len(gen[t].yielded) : gen[t].yielded[i - 1].chunk < gen[t].yielded[i].chunk

InvalidCall(tl) ==
    \/ /\ tl.name = "search_bookings_by_customer"
       /\ tl.args.customer_name = <<>> /\ tl.args.customer_email = <<>>
    \/ /\ tl.name = "search_bookings_by_date"
       /\ ~StrptimeOk(tl.args.start_date) \/ ~StrptimeOk(tl.args.end_date)
    \/ /\ tl.name = "search_bookings_by_date"
       /\ StrptimeOk(tl.args.start_date) /\ StrptimeOk(tl.args.end_date)
       /\ DayOrdinal(tl.args.end_date[1], tl.args.end_date[2], tl.args.end_date[3]) + 1
             - DayOrdinal(tl.args.start_date[1], tl.args.start_date[2], tl.args.start_date[3])
          > 366

\* C7: a search by customer without name and email, a search by date with a
\* date string strptime refuses, and one whose span (end + 1 day - start) exceeds
\* 366 days each return a structured error, and no client has been constructed
\* and no request issued.
C7_ValidationFirst ==
    \A t \in Tasks :
        (tool[t].name # "none" /\ InvalidCall(tool[t])) =>
            /\ pc[t] = "done"
            /\ tool[t].outcome = "returned"
            /\ Len(tool[t].payload) = 1
            /\ DOMAIN tool[t].payload[1] = {"error"}
            /\ log[t] = <<>>
            /\ server_client = FALSE
            /\ transport = None
            /\ created = 0

\* A search by date over 367 days has been refused.
C7_Witness ==
    \E t \in Tasks :
        /\ tool[t].name = "search_bookings_by_date"
        /\ tool[t].args.start_date = <<2023, 12, 27>>
        /\ tool[t].args.end_date = <<2024, 12, 27>>
        /\ tool[t].outcome = "returned"

\* C8: in a search, an answer with an error status is the last thing the call
\* does: it is not retried, no further page or chunk is requested, and the error
\* leaves search_bookings to the consumer.
C8_ErrorIsTerminal ==
    \A t \in Tasks :
        IsSearch(t) =>
            \A i \in 1..Len(log[t]) :
                log[t][i].status \in ErrorStatuses =>
                    /\ i = Len(log[t])
                    /\ pc[t] = "done"
                    /\ gen[t].state = "failed"
                    /\ tool[t].outcome = "raised"
                    /\ tool[t].payload = "HTTPStatusError"

\* A search failed on a follow-up page while further chunks were still to come.
C8_Witness ==
    \E t \in Tasks :
        /\ IsSearch(t)
        /\ gen[t].state = "failed"
        /\ log[t][Len(log[t])].status = "500"
        /\ Truthy(log[t][Len(log[t])].params.pageNavigationToken)
        /\ gen[t].chunk_end < gen[t].end_time

\* The page number a request asks for (a request without one asks for page 1).
PageNumberOf(params) == Get(params.pageNumber, 1)

\* Inside chunk k: the first request carries no cursor, and the request after an
\* answer that declares a next page carries that answer's token and the next
\* page number.
CursorFollowed(t, k) ==
    LET R == ChunkRequests(t, k)
        first == CHOOSE i \in R : \A j \in R : i <= j
    IN  /\ ~Truthy(log[t][first].params.pageNavigationToken)
        /\ ~Truthy(log[t][first].params.pageNumber)
        /\ \A i \in R :
              (log[t][i].status = "200" /\ Truthy(log[t][i].paging[1].nextPageURL)
                  /\ i < Len(log[t])) =>
                  /\ Truthy(log[t][i + 1].params.pageNavigationToken)
                  /\ log[t][i + 1].params.pageNavigationToken
                        = log[t][i].paging[1].pageNavigationToken
                  /\ PageNumberOf(log[t][i + 1].params) = PageNumberOf(log[t][i].params) + 1

\* No record of chunk k has been yielded twice.
NoRepeatedYield(t, k) ==
    \A a, b \in 1..Len(gen[t].yielded) :
        (a < b /\ gen[t].yielded[a].chunk = k /\ gen[t].yielded[b].chunk = k)
            => gen[t].yielded[a].booking # gen[t].yielded[b].booking

\* C9 as stated: whatever the upstream answers, the cursor is followed page by
\* page, no two requests of a chunk are identical and no record of a chunk is
\* yielded twice.
C9_Original ==
    \A t \in Tasks :
        IsSearch(t) =>
            \A k \in 1..Len(gen[t].chunks) :
                /\ CursorFollowed(t, k)
                /\ \A i, j \in ChunkRequests(t, k) :
                      i < j => log[t][i].params # log[t][j].params
                /\ NoRepeatedYield(t, k)

\* C9 amended: in a search all of whose answers that declare a next page carry a
\* cursor token and their own page number, the cursor is followed page by page,
\* two requests of a chunk are identical only when all the requests from the
\* first to the one before the second were answered with 429 (the second is a
\* re-issue), and no record of a chunk is yielded twice.
C9_Amended ==
    \A t \in Tasks :
        (IsSearch(t) /\ CountAnomalies(t) = 0) =>
            \A k \in 1..Len(gen[t].chunks) :
                /\ CursorFollowed(t, k)
                /\ \A i, j \in ChunkRequests(t, k) :
                      (i < j /\ log[t][i].params = log[t][j].params)
                          => \A m \in i..(j - 1) : log[t][m].status = "429"
                /\ NoRepeatedYield(t, k)

\* A chunk of three pages is over, one of whose requests was re-issued after a 429.
C9_Witness ==
    \E t \in Tasks :
        /\ IsSearch(t) /\ CountAnomalies(t) = 0
        /\ \E k \in 1..Len(gen[t].chunks) :
              /\ ChunkOver(t, k)
              /\ Cardinality({i \in ChunkRequests(t, k) : log[t][i].status = "200"}) >= 3
              /\ \E i \in ChunkRequests(t, k) : log[t][i].status = "429"

\* C10: the httpx client is created on first use, at most one is open at any
\* time, and client.get is never called on one that close() has released.
C10_Lifecycle ==
    /\ created > 0 => \E t \in Tasks : log[t] # <<>>
    /\ Cardinality((1..created) \ released) <= 1
    /\ \A t \in Tasks : \A i \in 1..Len(log[t]) : ~log[t][i].released
====
